---- MODULE Spec2Model ----
(***************************************************************************)
(* The Intcode virtual machine of src/year_2019/intcode_computer.rs as a   *)
(* state machine: program memory, the decoder, the fetch-decode-execute    *)
(* loop of IntcodeComputer::run (one action per instruction), the mpsc     *)
(* channels attached to a computer, and the caller's operations on them.   *)
(***************************************************************************)
EXTENDS Integers, Sequences, FiniteSets, TLC

\* ------------------------------------------------------------------ bounds

\* Loop iterations of run() a computer may execute in one behaviour.
MaxSteps == 5
\* Values the caller may send on an input channel in one behaviour.
MaxSends == 2
\* Calls of load() in one behaviour.
MaxLoads == 1
\* Units of the polymers day5's react_polymer is given, all of them tried.
MaxPolymer == 4

\* ------------------------------------------------------- program memory

None == "None"

\* i64 `/` and `%` truncate toward zero.
i64_div(a, b) == IF a >= 0 THEN a \div b ELSE -((-a) \div b)

i64_rem(a, b) == a - b * i64_div(a, b)

pow10(position) == IF position = 0 THEN 1
                   ELSE IF position = 1 THEN 10
                   ELSE IF position = 2 THEN 100
                   ELSE IF position = 3 THEN 1000
                   ELSE 10000

get_digit(number, position) == i64_rem(i64_div(number, pow10(position)), 10)

\* IntcodeProgram::get: address is a usize, data is 0-indexed.
get(data, address) == IF address < Len(data) THEN data[address + 1] ELSE 0

resize(data, new_len) ==
    [i \in 1..new_len |-> IF i <= Len(data) THEN data[i] ELSE 0]

replace_no_zero_fill(data, address, replacement) ==
    [i \in 1..(IF Len(data) <= address THEN address + 1 ELSE Len(data)) |->
        IF i = address + 1 THEN replacement
        ELSE IF i <= Len(data) THEN data[i] ELSE replacement]

replace(data, address, replacement) ==
    LET grown == IF Len(data) <= address THEN resize(data, address + 1) ELSE data
    IN  [grown EXCEPT ![address + 1] = replacement]

\* ---------------------------------------------------------------- decoder

Opcode_last_digit(instruction_header) == get_digit(instruction_header, 0)

Opcode(instruction_header) ==
    get_digit(instruction_header, 1) * 10 + get_digit(instruction_header, 0)

ParameterMode_from_opcode_digits(instruction_header, parameters_read) ==
    LET d == get_digit(instruction_header, 1 + parameters_read)
    IN  IF d = 0 THEN "PositionMode"
        ELSE IF d = 1 THEN "ImmediateMode"
        ELSE IF d = 2 THEN "RelativeMode"
        ELSE "Invalid"

ParameterMode(instruction_header, parameters_read) ==
    LET d == get_digit(instruction_header, 2 + parameters_read)
    IN  IF d = 0 THEN "PositionMode"
        ELSE IF d = 1 THEN "ImmediateMode"
        ELSE IF d = 2 THEN "RelativeMode"
        ELSE "Invalid"

\* A parsed parameter, or the panic that parsing it raises.
Param(tag, v) == [tag |-> tag, v |-> v]

parse_next_cast(instruction_header, parameters_read, parameter) ==
    LET mode == ParameterMode(instruction_header, parameters_read)
    IN  IF mode = "Invalid" THEN Param("Panic", "InvalidParameterMode")
        ELSE IF mode = "PositionMode"
             THEN Param("Position", IF parameter < 0 THEN -parameter ELSE parameter)
        ELSE IF mode = "ImmediateMode" THEN Param("Value", parameter)
        ELSE Param("Relative", parameter)

parse_next(instruction_header, parameters_read, parameter) ==
    LET mode == ParameterMode(instruction_header, parameters_read)
    IN  IF mode = "Invalid" THEN Param("Panic", "InvalidParameterMode")
        ELSE IF mode = "PositionMode"
             THEN IF parameter < 0 THEN Param("Panic", "NegativeAddress")
                  ELSE Param("Position", parameter)
        ELSE IF mode = "ImmediateMode" THEN Param("Value", parameter)
        ELSE Param("Relative", parameter)

parse_writeonly_allow_immediate(instruction_header, parameters_read, parameter) ==
    LET mode == ParameterMode(instruction_header, parameters_read)
    IN  IF mode = "Invalid" THEN Param("Panic", "InvalidParameterMode")
        ELSE IF mode = "RelativeMode" THEN Param("Relative", parameter)
        ELSE IF parameter < 0 THEN Param("Panic", "NegativeAddress")
        ELSE Param("Position", parameter)

parse_writeonly(instruction_header, parameters_read, parameter) ==
    LET mode == ParameterMode(instruction_header, parameters_read)
    IN  IF mode = "Invalid" THEN Param("Panic", "InvalidParameterMode")
        ELSE IF mode = "PositionMode"
             THEN IF parameter < 0 THEN Param("Panic", "NegativeAddress")
                  ELSE Param("Position", parameter)
        ELSE IF mode = "ImmediateMode" THEN Param("Panic", "IllegalWriteMode")
        ELSE Param("Relative", parameter)

\* The instruction built from parameters parsed left to right: the first
\* parameter whose parsing panics ends the decode.
Instr(op, ps) ==
    LET bad == {i \in 1..Len(ps) : ps[i].tag = "Panic"}
    IN  IF bad = {} THEN [op |-> op, p |-> ps, err |-> None]
        ELSE LET first == CHOOSE i \in bad : \A j \in bad : i <= j
             IN  [op |-> "Panic", p |-> <<>>, err |-> ps[first].v]

ThreeParams(op, h, m, ip) ==
    Instr(op, << parse_next(h, 0, get(m, ip + 1)),
                 parse_next(h, 1, get(m, ip + 2)),
                 parse_writeonly(h, 2, get(m, ip + 3)) >>)

TwoParams(op, h, m, ip) ==
    Instr(op, << parse_next(h, 0, get(m, ip + 1)),
                 parse_next(h, 1, get(m, ip + 2)) >>)

\* impl From<&IntcodeComputer> for IntcodeInstruction
Decode(state) ==
    LET m  == state.memory
        ip == state.instruction_pointer
        h  == get(m, ip)
        opcode == Opcode(h)
    IN  IF opcode = 1 THEN ThreeParams("Add", h, m, ip)
        ELSE IF opcode = 2 THEN ThreeParams("Multiply", h, m, ip)
        ELSE IF opcode = 3
             THEN Instr("Input", << parse_writeonly(h, 0, get(m, ip + 1)) >>)
        ELSE IF opcode = 4
             THEN Instr("Output", << parse_next(h, 0, get(m, ip + 1)) >>)
        ELSE IF opcode = 5 THEN TwoParams("JumpIfTrue", h, m, ip)
        ELSE IF opcode = 6 THEN TwoParams("JumpIfFalse", h, m, ip)
        ELSE IF opcode = 7 THEN ThreeParams("LessThan", h, m, ip)
        ELSE IF opcode = 8 THEN ThreeParams("Equals", h, m, ip)
        ELSE IF opcode = 9
             THEN Instr("RelativeBaseOffset", << parse_next(h, 0, get(m, ip + 1)) >>)
        ELSE IF opcode = 99 THEN Instr("Halt", <<>>)
        ELSE [op |-> "Panic", p |-> <<>>, err |-> "InvalidOpcode"]

length(op) ==
    CASE op \in {"Add", "Multiply", "LessThan", "Equals"} -> 4
      [] op \in {"Input", "Output", "RelativeBaseOffset"} -> 2
      [] op \in {"JumpIfTrue", "JumpIfFalse"} -> 3
      [] OTHER -> 1

\* IntcodeParameter::get_address: Some(address), None, or the panic of
\* try_into().unwrap() on a negative sum.
get_address(param, computer) ==
    IF param.tag = "Position" THEN [panic |-> FALSE, none |-> FALSE, addr |-> param.v]
    ELSE IF param.tag = "Value" THEN [panic |-> FALSE, none |-> TRUE, addr |-> 0]
    ELSE IF computer.relative_base + param.v < 0
         THEN [panic |-> TRUE, none |-> FALSE, addr |-> 0]
    ELSE [panic |-> FALSE, none |-> FALSE, addr |-> computer.relative_base + param.v]

get_value_literal(param, computer) == [panic |-> FALSE, v |-> param.v]

get_value(param, computer) ==
    IF param.tag = "Position"
    THEN [panic |-> FALSE, v |-> get(computer.memory, param.v)]
    ELSE IF param.tag = "Value" THEN [panic |-> FALSE, v |-> param.v]
    ELSE IF computer.relative_base + param.v < 0 THEN [panic |-> TRUE, v |-> 0]
    ELSE [panic |-> FALSE,
          v |-> get(computer.memory, computer.relative_base + param.v)]

\* ------------------------------------------------------------------ state

VMs == {"A", "B"}

\* The mpsc channels of a behaviour: each computer's inbound and outbound
\* channel with the caller, and the channel wiring A's output to B's input.
Chans == {"inA", "outA", "inB", "outB", "link"}

in_chan(v) == IF v = "A" THEN "inA" ELSE "inB"

out_chan(v) == IF v = "A" THEN "outA" ELSE "outB"

VARIABLES
    mode,     \* how the caller drives the computers: "inline", "thread", "chain"
    vm,       \* vm[v]: the IntcodeComputer v and where its run() is
    chan,     \* chan[c]: queued values and which endpoints are alive
    values,   \* the values the caller sends, in the order it sends them
    sends,    \* how many of them the caller has sent so far
    loads,    \* load() calls so far
    last,     \* the last operation on a computer, with the state before it
    calc,     \* an Add or Multiply on two 64-bit words, and what came of it
    polymer,  \* day5: the Vec<char> react_polymer works on
    index,    \* day5: the local i of react_polymer
    drop_unit,\* day5: the pair of units to drop, or None
    pc,       \* day5: where react_polymer is: "loop", "returned", "panicked"
    scanned   \* day5: the polymer react_polymer was called with

\* The state of day5's react_polymer.
day5 == <<polymer, index, drop_unit, pc, scanned>>

vars == <<mode, vm, chan, values, sends, loads, last, calc, polymer, index,
          drop_unit, pc, scanned>>

\* impl From<&IntcodeProgram> for IntcodeComputer, and the position of the
\* computer's run(): "absent", "idle", "running", "halted", "failed".
From(program, status) ==
    [memory |-> program, instruction_pointer |-> 0, relative_base |-> 0,
     input |-> None, output |-> None,
     status |-> status, err |-> None, steps |-> 0,
     received |-> <<>>, sent |-> <<>>]

\* mpsc::channel(): an empty queue with both endpoints alive.
channel == [q |-> <<>>, tx |-> TRUE, rx |-> TRUE]

NoChannel == [q |-> <<>>, tx |-> FALSE, rx |-> FALSE]

NoLast == [kind |-> "none", who |-> "A", op |-> None, arg |-> <<>>,
           pre |-> From(<<>>, "absent"), prechan |-> [c \in Chans |-> NoChannel]]

Stepped(v, op) == [kind |-> "step", who |-> v, op |-> op, arg |-> <<>>,
                   pre |-> vm[v], prechan |-> chan]

\* The endpoints a computer owns are dropped with it.
DropEndpoints(ch, computer) ==
    [c \in Chans |->
        IF c = computer.input THEN [ch[c] EXCEPT !.rx = FALSE]
        ELSE IF c = computer.output THEN [ch[c] EXCEPT !.tx = FALSE]
        ELSE ch[c]]

\* A panic unwinds the thread running run() and drops the computer.
Panic(v, op, err, computer, ch) ==
    /\ vm' = [vm EXCEPT ![v] = [computer EXCEPT !.status = "failed", !.err = err,
                                                !.steps = @ + 1]]
    /\ chan' = DropEndpoints(ch, vm[v])
    /\ last' = Stepped(v, op)
    /\ UNCHANGED <<values, calc, day5, mode, sends, loads>>

advance_by_length_after(before, computer, op) ==
    LET again == Decode([computer EXCEPT
                            !.instruction_pointer = before.instruction_pointer])
    IN  IF before.instruction_pointer = computer.instruction_pointer
        THEN [computer EXCEPT !.instruction_pointer = @ + length(again.op)]
        ELSE computer

\* run(), lines 147-149: the pointer advances when the instruction left it
\* where it was.
advance(before, computer, op) ==
    IF before.instruction_pointer = computer.instruction_pointer
    THEN [computer EXCEPT !.instruction_pointer = @ + length(op)]
    ELSE computer

\* The end of a loop iteration that did not panic.
Continue(v, op, computer, ch) ==
    /\ vm' = [vm EXCEPT ![v] = [advance(vm[v], computer, op)
                                   EXCEPT !.steps = @ + 1]]
    /\ chan' = ch
    /\ last' = Stepped(v, op)
    /\ UNCHANGED <<values, calc, day5, mode, sends, loads>>

Running(v) == vm[v].status = "running" /\ vm[v].steps < MaxSteps

\* ------------------------------------------------- run(): one loop iteration

\* IntcodeInstruction::from panics: invalid opcode, invalid mode digit, a
\* negative position operand, immediate mode on a write-only parameter.
DecodePanic(v) ==
    LET ins == Decode(vm[v])
    IN  /\ Running(v)
        /\ ins.op = "Panic"
        /\ Panic(v, "Panic", ins.err, vm[v], chan)

\* Add, Multiply, LessThan, Equals: both operands are read, the output
\* address is resolved, and only then is memory written.
binary_result_swapped(op, a, b) ==
    CASE op = "Add" -> a + b
      [] op = "Multiply" -> a * b
      [] op = "LessThan" -> IF b < a THEN 1 ELSE 0
      [] op = "Equals" -> IF a = b THEN 1 ELSE 0

binary_result(op, a, b) ==
    CASE op = "Add" -> a + b
      [] op = "Multiply" -> a * b
      [] op = "LessThan" -> IF a < b THEN 1 ELSE 0
      [] op = "Equals" -> IF a = b THEN 1 ELSE 0

Binary(v, op) ==
    LET c   == vm[v]
        ins == Decode(c)
        one == get_value(ins.p[1], c)
        two == get_value(ins.p[2], c)
        out == get_address(ins.p[3], c)
    IN  /\ Running(v)
        /\ ins.op = op
        /\ IF one.panic \/ two.panic \/ out.panic
           THEN Panic(v, op, "NegativeAddress", c, chan)
           ELSE IF out.none
           THEN Panic(v, op, "NotAnAddress", c, chan)
           ELSE Continue(v, op,
                    [c EXCEPT !.memory =
                        replace(@, out.addr, binary_result(op, one.v, two.v))],
                    chan)

Add(v) == Binary(v, "Add")

Multiply(v) == Binary(v, "Multiply")

LessThan(v) == Binary(v, "LessThan")

Equals(v) == Binary(v, "Equals")

\* Receiver::recv on channel c: the head of the queue; an error once the
\* queue is empty and the sender is gone; otherwise the caller blocks.
recv_keep_head(ch, c) == [ready |-> ch[c].q # <<>> \/ ~ch[c].tx,
                          err   |-> ch[c].q = <<>>,
                          v     |-> IF ch[c].q = <<>> THEN 0 ELSE Head(ch[c].q),
                          ch    |-> ch]

recv_disconnected_first(ch, c) ==
    [ready |-> ch[c].q # <<>> \/ ~ch[c].tx,
     err   |-> ch[c].q = <<>> \/ ~ch[c].tx,
     v     |-> IF ch[c].q = <<>> THEN 0 ELSE Head(ch[c].q),
     ch    |-> IF ch[c].q = <<>> \/ ~ch[c].tx THEN ch
               ELSE [ch EXCEPT ![c].q = Tail(@)]]

recv_nonblocking(ch, c) ==
    [ready |-> TRUE,
     err   |-> ch[c].q = <<>>,
     v     |-> IF ch[c].q = <<>> THEN 0 ELSE Head(ch[c].q),
     ch    |-> IF ch[c].q = <<>> THEN ch ELSE [ch EXCEPT ![c].q = Tail(@)]]

recv(ch, c) == [ready |-> ch[c].q # <<>> \/ ~ch[c].tx,
                err   |-> ch[c].q = <<>>,
                v     |-> IF ch[c].q = <<>> THEN 0 ELSE Head(ch[c].q),
                ch    |-> IF ch[c].q = <<>> THEN ch
                          ELSE [ch EXCEPT ![c].q = Tail(@)]]

\* Sender::send on channel c: an error when the receiver is gone, else the
\* value joins the end of the queue. It never blocks.
send_ignore_closed(ch, c, value) ==
    [err |-> FALSE,
     ch  |-> IF ch[c].rx THEN [ch EXCEPT ![c].q = Append(@, value)] ELSE ch]

send_bounded(ch, c, value) ==
    [err |-> ~ch[c].rx \/ ch[c].q # <<>>,
     ch  |-> IF ch[c].rx /\ ch[c].q = <<>>
             THEN [ch EXCEPT ![c].q = Append(@, value)] ELSE ch]

send(ch, c, value) == [err |-> ~ch[c].rx,
                       ch  |-> IF ch[c].rx
                               THEN [ch EXCEPT ![c].q = Append(@, value)]
                               ELSE ch]

\* Input: the value is received before the address is resolved.
Input(v) ==
    LET c   == vm[v]
        ins == Decode(c)
    IN  /\ Running(v)
        /\ ins.op = "Input"
        /\ IF c.input = None
           THEN Panic(v, "Input", "NoInputChannel", c, chan)
           ELSE LET r  == recv(chan, c.input)
                    to == get_address(ins.p[1], c)
                    taken == [c EXCEPT !.received = Append(@, r.v)]
                IN  /\ r.ready
                    /\ IF r.err
                       THEN Panic(v, "Input", "ChannelClosed", c, chan)
                       ELSE IF to.panic
                       THEN Panic(v, "Input", "NegativeAddress", taken, r.ch)
                       ELSE IF to.none
                       THEN Panic(v, "Input", "NotAnAddress", taken, r.ch)
                       ELSE Continue(v, "Input",
                                [taken EXCEPT !.memory = replace(@, to.addr, r.v)],
                                r.ch)

Output_dropped_without_channel(v) ==
    LET c    == vm[v]
        ins  == Decode(c)
        from == get_value(ins.p[1], c)
    IN  /\ Running(v)
        /\ ins.op = "Output"
        /\ IF from.panic
           THEN Panic(v, "Output", "NegativeAddress", c, chan)
           ELSE IF c.output = None
           THEN Continue(v, "Output", c, chan)
           ELSE LET s == send(chan, c.output, from.v)
                IN  IF s.err
                    THEN Panic(v, "Output", "ChannelClosed", c, chan)
                    ELSE Continue(v, "Output",
                             [c EXCEPT !.sent = Append(@, from.v)], s.ch)

Output_extending_read(v) ==
    LET c     == vm[v]
        ins   == Decode(c)
        from  == get_value(ins.p[1], c)
        a     == get_address(ins.p[1], c)
        grown == IF ~a.panic /\ ~a.none /\ Len(c.memory) <= a.addr
                 THEN resize(c.memory, a.addr + 1) ELSE c.memory
    IN  /\ Running(v)
        /\ ins.op = "Output"
        /\ IF from.panic
           THEN Panic(v, "Output", "NegativeAddress", c, chan)
           ELSE IF c.output = None
           THEN Panic(v, "Output", "NoOutputChannel", c, chan)
           ELSE LET s == send(chan, c.output, from.v)
                IN  IF s.err
                    THEN Panic(v, "Output", "ChannelClosed", c, chan)
                    ELSE Continue(v, "Output",
                             [c EXCEPT !.sent = Append(@, from.v),
                                       !.memory = grown], s.ch)

\* Output: the value is read before the channel is looked at.
Output(v) ==
    LET c    == vm[v]
        ins  == Decode(c)
        from == get_value(ins.p[1], c)
    IN  /\ Running(v)
        /\ ins.op = "Output"
        /\ IF from.panic
           THEN Panic(v, "Output", "NegativeAddress", c, chan)
           ELSE IF c.output = None
           THEN Panic(v, "Output", "NoOutputChannel", c, chan)
           ELSE LET s == send(chan, c.output, from.v)
                IN  IF s.err
                    THEN Panic(v, "Output", "ChannelClosed", c, chan)
                    ELSE Continue(v, "Output",
                             [c EXCEPT !.sent = Append(@, from.v)], s.ch)

\* JumpIfTrue / JumpIfFalse: the target is read only when the test passes;
\* a negative target does not convert to usize.
jump_taken(op, test) == IF op = "JumpIfTrue" THEN test # 0 ELSE test = 0

Jump(v, op) ==
    LET c    == vm[v]
        ins  == Decode(c)
        test == get_value(ins.p[1], c)
        to   == get_value(ins.p[2], c)
    IN  /\ Running(v)
        /\ ins.op = op
        /\ IF test.panic
           THEN Panic(v, op, "NegativeAddress", c, chan)
           ELSE IF ~jump_taken(op, test.v)
           THEN Continue(v, op, c, chan)
           ELSE IF to.panic
           THEN Panic(v, op, "NegativeAddress", c, chan)
           ELSE IF to.v < 0
           THEN Panic(v, op, "NegativeJumpTarget", c, chan)
           ELSE Continue(v, op, [c EXCEPT !.instruction_pointer = to.v], chan)

JumpIfTrue(v) == Jump(v, "JumpIfTrue")

JumpIfFalse(v) == Jump(v, "JumpIfFalse")

RelativeBaseOffset(v) ==
    LET c      == vm[v]
        ins    == Decode(c)
        offset == get_value(ins.p[1], c)
    IN  /\ Running(v)
        /\ ins.op = "RelativeBaseOffset"
        /\ IF offset.panic
           THEN Panic(v, "RelativeBaseOffset", "NegativeAddress", c, chan)
           ELSE Continue(v, "RelativeBaseOffset",
                    [c EXCEPT !.relative_base = @ + offset.v], chan)

Halt_advancing(v) ==
    /\ Running(v)
    /\ Decode(vm[v]).op = "Halt"
    /\ vm' = [vm EXCEPT ![v].status = "halted", ![v].steps = @ + 1,
                        ![v].instruction_pointer = @ + length("Halt")]
    /\ chan' = IF mode = "inline" THEN chan ELSE DropEndpoints(chan, vm[v])
    /\ last' = Stepped(v, "Halt")
    /\ UNCHANGED <<values, calc, day5, mode, sends, loads>>

\* Halt breaks the loop and run() returns. A computer spawned by
\* run_new_in_thread is dropped when its thread's closure ends.
Halt(v) ==
    /\ Running(v)
    /\ Decode(vm[v]).op = "Halt"
    /\ vm' = [vm EXCEPT ![v].status = "halted", ![v].steps = @ + 1]
    /\ chan' = IF mode = "inline" THEN chan ELSE DropEndpoints(chan, vm[v])
    /\ last' = Stepped(v, "Halt")
    /\ UNCHANGED <<values, calc, day5, mode, sends, loads>>

\* ------------------------------------------------------ the caller's side

\* The caller can reach a computer it runs inline while run() is not on the
\* stack; a computer moved into a thread is out of its reach.
AtRest(v) == mode = "inline" /\ vm[v].status \in {"idle", "halted"}

\* The caller's thread is alive: inline, a panic in run() is its own.
CallerAlive == mode = "inline" => \A v \in VMs : vm[v].status # "failed"

\* The values the caller sends to the programs of Spec.
InputValues == <<7, 0, -5, 12>>

\* Programs the caller loads into a computer that already ran.
LoadPrograms == { <<3, 0, 4, 0, 99>> }

load_keeps_relative_base(v, program) ==
    /\ AtRest(v)
    /\ loads < MaxLoads
    /\ vm' = [vm EXCEPT ![v].memory = program,
                        ![v].instruction_pointer = 0,
                        ![v].status = "idle"]
    /\ loads' = loads + 1
    /\ last' = [kind |-> "load", who |-> v, op |-> None, arg |-> program,
                pre |-> vm[v], prechan |-> chan]
    /\ UNCHANGED <<values, calc, day5, mode, chan, sends>>

load(v, program) ==
    /\ AtRest(v)
    /\ loads < MaxLoads
    /\ vm' = [vm EXCEPT ![v].memory = program,
                        ![v].instruction_pointer = 0,
                        ![v].relative_base = 0,
                        ![v].status = "idle"]
    /\ loads' = loads + 1
    /\ last' = [kind |-> "load", who |-> v, op |-> None, arg |-> program,
                pre |-> vm[v], prechan |-> chan]
    /\ UNCHANGED <<values, calc, day5, mode, chan, sends>>

\* create_input: a fresh channel; the computer's previous receiver, if any,
\* is dropped with the assignment.
create_input(v) ==
    /\ AtRest(v)
    /\ vm' = [vm EXCEPT ![v].input = in_chan(v)]
    /\ chan' = [chan EXCEPT ![in_chan(v)] = channel]
    /\ last' = NoLast
    /\ UNCHANGED <<values, calc, day5, mode, sends, loads>>

create_output(v) ==
    /\ AtRest(v)
    /\ vm' = [vm EXCEPT ![v].output = out_chan(v)]
    /\ chan' = [chan EXCEPT ![out_chan(v)] = channel]
    /\ last' = NoLast
    /\ UNCHANGED <<values, calc, day5, mode, sends, loads>>

\* run() is called on a computer at rest.
run(v) ==
    /\ AtRest(v)
    /\ vm' = [vm EXCEPT ![v].status = "running"]
    /\ last' = NoLast
    /\ UNCHANGED <<values, calc, day5, mode, chan, sends, loads>>

\* The caller sends on the Sender it holds for v's input.
CallerSend(v, value) ==
    /\ CallerAlive
    /\ sends < Len(values)
    /\ value = values[sends + 1]
    /\ mode = "inline" => vm[v].status # "running"
    /\ sends < MaxSends
    /\ chan[in_chan(v)].tx
    /\ chan[in_chan(v)].rx
    /\ chan' = send(chan, in_chan(v), value).ch
    /\ sends' = sends + 1
    /\ last' = NoLast
    /\ UNCHANGED <<values, calc, day5, mode, vm, loads>>

\* The caller drops the Sender it holds for v's input.
CallerDropSender(v) ==
    /\ CallerAlive
    /\ mode = "inline" => vm[v].status # "running"
    /\ chan[in_chan(v)].tx
    /\ chan' = [chan EXCEPT ![in_chan(v)].tx = FALSE]
    /\ last' = NoLast
    /\ UNCHANGED <<values, calc, day5, mode, vm, sends, loads>>

\* The caller receives from the Receiver it holds for v's output.
CallerRecv(v) ==
    /\ CallerAlive
    /\ mode = "inline" => vm[v].status # "running"
    /\ chan[out_chan(v)].rx
    /\ chan[out_chan(v)].q # <<>>
    /\ chan' = recv(chan, out_chan(v)).ch
    /\ last' = NoLast
    /\ UNCHANGED <<values, calc, day5, mode, vm, sends, loads>>

\* The caller drops the Receiver it holds for v's output.
CallerDropReceiver(v) ==
    /\ CallerAlive
    /\ mode = "inline" => vm[v].status # "running"
    /\ chan[out_chan(v)].rx
    /\ chan' = [chan EXCEPT ![out_chan(v)].rx = FALSE]
    /\ last' = NoLast
    /\ UNCHANGED <<values, calc, day5, mode, vm, sends, loads>>

\* --------------------------------------------------------------- programs

\* Parameters each operation of the table takes; an opcode outside the table
\* is given three mode digits as well.
Arity(opcode) ==
    CASE opcode \in {1, 2, 7, 8} -> 3
      [] opcode \in {5, 6} -> 2
      [] opcode \in {3, 4, 9} -> 1
      [] opcode = 99 -> 0
      [] OTHER -> 3

Opcodes == {0, 1, 2, 3, 4, 5, 6, 7, 8, 9, 10, 99}

ModeDigits == {0, 1, 2}

Header(opcode, m1, m2, m3) == opcode + 100 * m1 + 1000 * m2 + 10000 * m3

\* Instruction words: every opcode of the table and two outside it, under
\* every combination of the mode digits of its parameters.
Headers ==
    { Header(o, m1, m2, m3) : o \in {x \in Opcodes : Arity(x) = 3},
                              m1 \in ModeDigits, m2 \in ModeDigits, m3 \in ModeDigits }
    \cup { Header(o, m1, m2, 0) : o \in {x \in Opcodes : Arity(x) = 2},
                                  m1 \in ModeDigits, m2 \in ModeDigits }
    \cup { Header(o, m1, 0, 0) : o \in {x \in Opcodes : Arity(x) = 1},
                                 m1 \in ModeDigits }
    \cup { 99 }

\* Words whose mode digits lie beyond the operation's parameters or outside
\* 0..2, and negative words.
OddHeaders == { 12099, 1103, 21004, 10109, 22105, 301, 3001, 30001, 398, 1311,
                -1, -101, -99 }

\* Operand triples: addresses inside and beyond the program, negative
\* operands, zero and non-zero tests, jump targets at, before and after the
\* instruction.
Operands == { <<0, 1, 6>>, <<1, 0, -1>>, <<-1, 2, 0>>, <<4, -1, 8>> }

\* One instruction at address 0, then Halt.
OneInstruction ==
    { <<h, t[1], t[2], t[3], 99>> : h \in Headers \cup OddHeaders, t \in Operands }

\* The same after the relative base has been moved, the instruction at 2.
RelativeBases == {-1, 4}

Rebased == { <<109, r, h, t[1], t[2], t[3], 99>> :
                r \in RelativeBases, h \in Headers, t \in {<<0, 1, 9>>} }

Examples == { <<1, 0, 0, 0, 99>>, <<2, 3, 0, 3, 99>>, <<3, 0, 4, 0, 99>>, <<99>>,
              <<3, 9, 3, 10, 4, 9, 4, 10, 99>>,
              <<109, 4, 21101, 5, 6, 5, 204, 5, 99>>,
              <<109, -3, 203, 2, 99>>, <<109, -3, 203, 5, 204, 5, 99>> }

\* Programs around Input and Output: in every mode of the write parameter,
\* with addresses that resolve and that do not, between other operations.
IOPrograms == Examples \cup { <<103, 0, 99>>, <<203, -1, 99>>, <<203, 4, 4, 4, 99>>,
                              <<3, 0, 1005, 0, 6, 99, 104, 5, 99>>,
                              <<3, 1, 108, 7, 1, 5, 4, 5, 99>>,
                              <<4, 0, 3, 0, 4, 0, 99>>,
                              <<4, 7, 99>>, <<9, 5, 204, -3, 99>> }

Programs == OneInstruction \cup Rebased \cup IOPrograms

\* Programs run in a thread of their own: those that begin with Input or
\* Output, and the examples.
ThreadPrograms == { p \in Programs : Opcode(p[1]) \in {3, 4} } \cup IOPrograms

\* A computer that only sends, and one that only receives.
Producers == { <<104, 11, 104, 22, 104, 33, 99>>, <<104, 11, 104, 22, 99>>,
               <<104, 11, 99>> }

Consumers == { <<3, 9, 3, 10, 3, 11, 99>>, <<3, 9, 3, 10, 99>>, <<3, 9, 99>> }

\* ------------------------------------------------------ the state machine

NoChannels == [c \in Chans |-> NoChannel]

\* The caller builds one computer and drives it itself.
InitInline(programs) ==
    /\ mode = "inline"
    /\ \E p \in programs :
          vm = [v \in VMs |-> IF v = "A" THEN From(p, "idle")
                              ELSE From(<<>>, "absent")]
    /\ chan = NoChannels

\* run_new_in_thread: both channels attached, run() started in a thread.
InitThread(programs) ==
    /\ mode = "thread"
    /\ \E p \in programs :
          vm = [v \in VMs |->
                  IF v = "A"
                  THEN [From(p, "running") EXCEPT !.input = "inA", !.output = "outA"]
                  ELSE From(<<>>, "absent")]
    /\ chan = [c \in Chans |-> IF c \in {"inA", "outA"} THEN channel ELSE NoChannel]

\* Two computers in threads, A's output handle feeding B's input.
InitChain ==
    /\ mode = "chain"
    /\ \E pa \in Producers, pb \in Consumers :
          vm = [v \in VMs |->
                  IF v = "A"
                  THEN [From(pa, "running") EXCEPT !.input = "inA", !.output = "link"]
                  ELSE [From(pb, "running") EXCEPT !.input = "link", !.output = "outB"]]
    /\ chan = [c \in Chans |-> IF c \in {"inA", "link", "outB"} THEN channel
                               ELSE NoChannel]

\* Nothing is being calculated on wide words, react_polymer is not called.
NoCalc == [op |-> None, one |-> <<>>, two |-> <<>>, outcome |-> None,
           result |-> <<>>]

NoPolymer ==
    /\ polymer = <<>>
    /\ index = 0
    /\ drop_unit = None
    /\ pc = None
    /\ scanned = <<>>

InitWith(inline, threaded) ==
    /\ (InitInline(inline) \/ InitThread(threaded) \/ InitChain)
    /\ values = InputValues
    /\ sends = 0
    /\ loads = 0
    /\ last = NoLast
    /\ calc = NoCalc
    /\ NoPolymer

Init == InitWith(Programs, ThreadPrograms)

Next ==
    \/ \E v \in VMs : DecodePanic(v)
    \/ \E v \in VMs : Add(v)
    \/ \E v \in VMs : Multiply(v)
    \/ \E v \in VMs : Input(v)
    \/ \E v \in VMs : Output(v)
    \/ \E v \in VMs : JumpIfTrue(v)
    \/ \E v \in VMs : JumpIfFalse(v)
    \/ \E v \in VMs : LessThan(v)
    \/ \E v \in VMs : Equals(v)
    \/ \E v \in VMs : RelativeBaseOffset(v)
    \/ \E v \in VMs : Halt(v)
    \/ \E v \in VMs, p \in LoadPrograms : load(v, p)
    \/ \E v \in VMs : create_input(v)
    \/ \E v \in VMs : create_output(v)
    \/ \E v \in VMs : run(v)
    \/ \E v \in VMs, x \in {values[k] : k \in 1..Len(values)} : CallerSend(v, x)
    \/ \E v \in VMs : CallerDropSender(v)
    \/ \E v \in VMs : CallerRecv(v)
    \/ \E v \in VMs : CallerDropReceiver(v)

Spec == Init /\ [][Next]_vars

\* A thread that can run is eventually run: a computer whose recv() can
\* return executes its Input.
Fairness == \A v \in VMs : WF_vars(Input(v))

\* The programs that receive and send, and one of each other operation.
InitIO == InitWith(IOPrograms, IOPrograms)

FairSpec == InitIO /\ [][Next]_vars /\ Fairness

\* ----------------------------------------------------------------- claims
\* The last operation, read from the state before it: the word at the
\* pointer, its operands and mode digits as section 4.2 of the specification
\* defines them, and the values the operands stand for.

Pre == last.pre

Post == vm[last.who]

PreWord == get(Pre.memory, Pre.instruction_pointer)

TwoDigitOpcode == IF PreWord >= 0 THEN PreWord % 100 ELSE -((-PreWord) % 100)

OperandAt(i) == get(Pre.memory, Pre.instruction_pointer + i)

ModeDigitAt(i) == IF PreWord >= 0 THEN (PreWord \div (10 ^ (1 + i))) % 10
                  ELSE -(((-PreWord) \div (10 ^ (1 + i))) % 10)

\* The address operand i names, and whether it names one that exists.
AddressAt(i) == IF ModeDigitAt(i) = 2 THEN Pre.relative_base + OperandAt(i)
                ELSE OperandAt(i)

Readable(i) == ModeDigitAt(i) = 1 \/ (ModeDigitAt(i) \in {0, 2} /\ AddressAt(i) >= 0)

ValueAt(i) == IF ModeDigitAt(i) = 1 THEN OperandAt(i)
              ELSE get(Pre.memory, AddressAt(i))

StepOf(ops) == last.kind = "step" /\ last.op \in ops

Unchanged(fields) ==
    /\ "memory" \in fields => Post.memory = Pre.memory
    /\ "instruction_pointer" \in fields =>
          Post.instruction_pointer = Pre.instruction_pointer
    /\ "relative_base" \in fields => Post.relative_base = Pre.relative_base
    /\ "channels" \in fields =>
          /\ Post.input = Pre.input
          /\ Post.output = Pre.output
          /\ \A c \in Chans : chan[c].q = last.prechan[c].q

Registers == {"memory", "instruction_pointer", "relative_base"}

\* A jump whose test passed and whose target is a value that exists and is
\* not negative.
RedirectingJump ==
    /\ StepOf({"JumpIfTrue", "JumpIfFalse"})
    /\ Readable(1) /\ Readable(2)
    /\ IF last.op = "JumpIfTrue" THEN ValueAt(1) # 0 ELSE ValueAt(1) = 0
    /\ ValueAt(2) >= 0

\* C1: after a JumpIfTrue whose test is non-zero or a JumpIfFalse whose test
\* is zero, with any non-negative target, the instruction pointer equals the
\* target and is not advanced by the instruction's length.
C1_JumpLandsOnTarget ==
    RedirectingJump => Post.instruction_pointer = ValueAt(2)

\* C2 as stated: after load(program) the pointer and the relative base are
\* 0, memory is the loaded program, and nothing the loaded program can
\* observe is left over from before: no value queued earlier waits on its
\* input.
C2_LoadLeavesNothingBehind ==
    last.kind = "load" =>
        /\ Post.instruction_pointer = 0
        /\ Post.relative_base = 0
        /\ Post.memory = last.arg
        /\ Post.input # None => chan[Post.input].q = <<>>

\* C2, amended: after load(program) the pointer and the relative base are 0
\* and memory is the loaded program; the attached channels, their endpoints
\* and the values queued on them are what they were before the call.
C2_LoadResetsRegistersOnly ==
    last.kind = "load" =>
        /\ Post.instruction_pointer = 0
        /\ Post.relative_base = 0
        /\ Post.memory = last.arg
        /\ Post.input = Pre.input
        /\ Post.output = Pre.output
        /\ chan = last.prechan

\* A program that moved the pointer and the relative base has halted, a
\* value is still queued on its input, and another program is loaded.
C2_Witness ==
    /\ last.kind = "load"
    /\ Pre.status = "halted"
    /\ Pre.instruction_pointer # 0
    /\ Pre.relative_base # 0
    /\ Pre.memory # last.arg
    /\ Pre.input # None
    /\ chan[Pre.input].q # <<>>

IsPrefix(s, t) == Len(s) <= Len(t) /\ \A i \in 1..Len(s) : s[i] = t[i]

\* C3: with A's output wired to B's input and both running, what B's Input
\* instructions have received is at every moment a prefix of what A's Output
\* instructions have sent, in the same order; the values sent and not yet
\* received are exactly the ones waiting in the channel (none duplicated,
\* lost or reordered); with as many Inputs as Outputs the sequences are equal.
C3_ChainIsFifo ==
    mode = "chain" =>
        /\ IsPrefix(vm["B"].received, vm["A"].sent)
        /\ vm["A"].sent = vm["B"].received \o chan["link"].q
        /\ Len(vm["B"].received) = Len(vm["A"].sent) =>
              vm["B"].received = vm["A"].sent

\* B has received three values from A while A was still sending: A's second
\* Output came after B's first Input.
C3_Witness ==
    /\ mode = "chain"
    /\ Len(vm["B"].received) = 3
    /\ vm["B"].received = vm["A"].sent
    /\ vm["B"].memory[10] # vm["B"].memory[11]
    /\ last.kind = "step" /\ last.who = "B" /\ last.op = "Input"
    /\ Len(last.prechan["link"].q) = 1

\* Computer v is at an Input instruction with a channel attached.
AtInput(v) ==
    /\ vm[v].status = "running"
    /\ Decode(vm[v]).op = "Input"
    /\ vm[v].input # None

\* ... and waits: nothing is queued and the sender is alive.
Blocked(v) ==
    /\ AtInput(v)
    /\ chan[vm[v].input].q = <<>>
    /\ chan[vm[v].input].tx

\* ... and recv() can return: a value is queued, or nothing is and the
\* sender has been dropped. The computer has an iteration left.
Ready(v) ==
    /\ AtInput(v)
    /\ vm[v].steps < MaxSteps
    /\ chan[vm[v].input].q # <<>> \/ ~chan[vm[v].input].tx

\* The last operation was an Input of v on an attached channel.
InputActed(v) == StepOf({"Input"}) /\ last.who = v /\ Pre.input # None

\* What was queued for that Input.
Queued == last.prechan[Pre.input].q

\* It took the head of its queue.
TookHead ==
    /\ Post.received = Append(Pre.received, Head(Queued))
    /\ chan[Pre.input].q = Tail(Queued)

\* It stored x at the address of its parameter and went on.
StoredAndWentOn(x) ==
    /\ Post.status = "running"
    /\ AddressAt(1) >= 0
    /\ Post.memory = replace(Pre.memory, AddressAt(1), x)
    /\ Post.instruction_pointer = Pre.instruction_pointer + 2
    /\ Post.relative_base = Pre.relative_base

\* It failed on the negative address of its relative-mode parameter.
FailedOnAddress ==
    /\ Post.status = "failed"
    /\ Post.err = "NegativeAddress"
    /\ ModeDigitAt(1) = 2
    /\ AddressAt(1) < 0
    /\ Unchanged(Registers)

\* C4 as stated, for a finite run: an Input that finds a value queued takes
\* it, stores exactly that value and execution continues.
C4_InputStoresWhatItTakes ==
    \A v \in VMs :
        (InputActed(v) /\ Queued # <<>>) => (TookHead /\ StoredAndWentOn(Head(Queued)))

\* C4, amended: a computer at an Input whose queue is empty and whose sender
\* is alive does not change; once a value is queued for it, or the sender is
\* dropped with nothing queued, its Input eventually executes; an Input that
\* finds a value queued takes it and stores exactly that value with execution
\* continuing, unless the relative-mode address of the Input is negative, in
\* which case execution fails with the value taken and not stored; an Input
\* that finds nothing queued had its sender dropped, and execution fails.
C4_InputBlocksThenDelivers ==
    /\ [][\A v \in VMs : Blocked(v) => vm'[v] = vm[v]]_vars
    /\ [](\A v \in VMs :
            (InputActed(v) /\ Queued # <<>>) =>
                (TookHead /\ (StoredAndWentOn(Head(Queued)) \/ FailedOnAddress)))
    /\ [](\A v \in VMs :
            (InputActed(v) /\ Queued = <<>>) =>
                /\ ~last.prechan[Pre.input].tx
                /\ Post.status = "failed" /\ Post.err = "ChannelClosed"
                /\ Unchanged(Registers \cup {"channels"}))
    /\ \A v \in VMs, k \in {0, 1} :
          (Ready(v) /\ vm[v].steps % 2 = k)
              ~> (InputActed(v) /\ vm[v].steps % 2 = 1 - k)

\* A computer started in a thread at an Input, with nothing queued, has taken
\* the value the caller sent later and stored it.
C4_Witness ==
    /\ mode = "thread"
    /\ InputActed("A")
    /\ Pre.steps = 0
    /\ Queued = <<InputValues[1]>>
    /\ StoredAndWentOn(InputValues[1])

\* C5: an Output executed when the receiver of the attached outbound channel
\* has been dropped ends execution with a failure: the value is not queued,
\* memory and registers are as before, and no computer executes an
\* instruction after it has failed.
C5_OutputToDroppedReceiverFails ==
    /\ (/\ last.kind = "step"
        /\ TwoDigitOpcode = 4
        /\ Pre.output # None
        /\ ~last.prechan[Pre.output].rx)
       => /\ Post.status = "failed"
          /\ Post.sent = Pre.sent
          /\ Unchanged(Registers \cup {"channels"})
    /\ last.kind = "step" => Pre.status = "running"

C5_Witness ==
    /\ StepOf({"Output"})
    /\ Pre.output # None
    /\ ~last.prechan[Pre.output].rx
    /\ Readable(1)
    /\ Post.status = "failed"
    /\ Post.err = "ChannelClosed"

\* C6: an Input executed with no input channel attached, or an Output with no
\* output channel attached, ends execution with a failure and leaves memory,
\* the instruction pointer and the relative base as they were.
C6_NoChannelFails ==
    (/\ last.kind = "step"
     /\ \/ TwoDigitOpcode = 3 /\ Pre.input = None
        \/ TwoDigitOpcode = 4 /\ Pre.output = None)
    => (Post.status = "failed" /\ Unchanged(Registers))

C6_Witness ==
    /\ StepOf({"Output"})
    /\ Pre.output = None
    /\ Pre.input # None
    /\ Post.status = "failed"
    /\ Post.err = "NoOutputChannel"

ValidOpcodes == {1, 2, 3, 4, 5, 6, 7, 8, 9, 99}

\* C7: when the two-digit opcode of the word at the pointer is outside the
\* table, the step fails with an invalid-opcode error and memory, pointer,
\* relative base and both channels are as before, whatever the mode digits
\* and operands.
C7_InvalidOpcodeFailsClean ==
    (last.kind = "step" /\ TwoDigitOpcode \notin ValidOpcodes)
    => /\ Post.status = "failed"
       /\ Post.err = "InvalidOpcode"
       /\ Unchanged(Registers \cup {"channels"})

\* An opcode outside the table, with a negative operand in position mode and
\* a value waiting on the input channel.
C7_Witness ==
    /\ last.kind = "step"
    /\ TwoDigitOpcode \notin ValidOpcodes
    /\ ModeDigitAt(1) = 0 /\ OperandAt(1) < 0
    /\ ModeDigitAt(3) = 1
    /\ Pre.input # None /\ last.prechan[Pre.input].q # <<>>
    /\ Post.err = "InvalidOpcode"

ImmediateWrite ==
    \/ TwoDigitOpcode \in {1, 2, 7, 8} /\ ModeDigitAt(3) = 1
    \/ TwoDigitOpcode = 3 /\ ModeDigitAt(1) = 1

\* C8: Add, Multiply, LessThan, Equals with the third mode digit 1, and Input
\* with the first mode digit 1, fail before any memory cell is written and
\* before any value is taken from the input channel.
C8_ImmediateWriteFails ==
    (last.kind = "step" /\ ImmediateWrite)
    => /\ Post.status = "failed"
       /\ Post.received = Pre.received
       /\ Unchanged(Registers \cup {"channels"})

\* An Input in immediate mode with a value waiting for it.
C8_Witness ==
    /\ last.kind = "step"
    /\ TwoDigitOpcode = 3 /\ ModeDigitAt(1) = 1
    /\ Pre.input # None /\ last.prechan[Pre.input].q # <<>>
    /\ Post.err = "IllegalWriteMode"

\* The parameters the step at hand resolves to an address: every parameter of
\* an arithmetic, comparison, Input, Output or RelativeBaseOffset instruction,
\* and of a jump the test, and the target when the test passes.
Resolved(i) ==
    CASE TwoDigitOpcode \in {1, 2, 7, 8} -> i \in 1..3
      [] TwoDigitOpcode \in {3, 4, 9} -> i = 1
      [] TwoDigitOpcode \in {5, 6} ->
            \/ i = 1
            \/ /\ i = 2
               /\ Readable(1)
               /\ IF TwoDigitOpcode = 5 THEN ValueAt(1) # 0 ELSE ValueAt(1) = 0
      [] OTHER -> FALSE

Declared(i) ==
    CASE TwoDigitOpcode \in {1, 2, 7, 8} -> i \in 1..3
      [] TwoDigitOpcode \in {5, 6} -> i \in 1..2
      [] TwoDigitOpcode \in {3, 4, 9} -> i = 1
      [] OTHER -> FALSE

NegativePosition(i) == Declared(i) /\ ModeDigitAt(i) = 0 /\ OperandAt(i) < 0

NegativeRelative(i) ==
    Resolved(i) /\ ModeDigitAt(i) = 2 /\ Pre.relative_base + OperandAt(i) < 0

ResolvesNegative == \E i \in 1..3 : NegativePosition(i) \/ NegativeRelative(i)

\* C9: a step that resolves a negative position-mode operand, or a
\* relative-mode operand whose sum with the relative base is negative, fails
\* and leaves memory, instruction pointer and relative base as they were; a
\* step that resolves no negative address does not fail on an address, however
\* negative the relative base is.
C9_NegativeAddressFails ==
    /\ (last.kind = "step" /\ ResolvesNegative)
       => (Post.status = "failed" /\ Unchanged(Registers))
    /\ (last.kind = "step" /\ ~ResolvesNegative)
       => Post.err # "NegativeAddress"

\* A non-negative operand that a negative relative base takes below zero.
C9_Witness ==
    /\ last.kind = "step"
    /\ TwoDigitOpcode \in {1, 2, 7, 8}
    /\ Pre.relative_base < 0
    /\ ModeDigitAt(1) = 2 /\ OperandAt(1) >= 0 /\ AddressAt(1) < 0
    /\ Post.status = "failed"
    /\ Post.err = "NegativeAddress"

ProbeBeyond == 2

ReplaceValues == {-5, 7}

Max(a, b) == IF a >= b THEN a ELSE b

\* What replace(a, v) has to make of a memory m to give r.
Replaced(m, a, v, r) ==
    /\ Len(r) = Max(Len(m), a + 1)
    /\ get(r, a) = v
    /\ \A i \in 0..(Len(m) - 1) : i # a => get(r, i) = get(m, i)
    /\ \A i \in Len(m)..(a - 1) : get(r, i) = 0
    /\ \A i \in Len(r)..(Len(r) + ProbeBeyond) : get(r, i) = 0

\* The addresses within ProbeBeyond of either end of a memory, and past its end.
Probed(m) ==
    { a \in 0..(Len(m) + ProbeBeyond) :
        a <= ProbeBeyond \/ a >= Len(m) - 1 - ProbeBeyond }

\* A memory as it was constructed, or as a step or a load has just left it.
NewMemory(v) == vm[v].steps = 0 \/ (last.kind # "none" /\ last.who = v)

WriteParameter == IF TwoDigitOpcode = 3 THEN 1 ELSE 3

Written ==
    CASE TwoDigitOpcode = 1 -> ValueAt(1) + ValueAt(2)
      [] TwoDigitOpcode = 2 -> ValueAt(1) * ValueAt(2)
      [] TwoDigitOpcode = 7 -> IF ValueAt(1) < ValueAt(2) THEN 1 ELSE 0
      [] TwoDigitOpcode = 8 -> IF ValueAt(1) = ValueAt(2) THEN 1 ELSE 0
      [] OTHER -> Head(last.prechan[Pre.input].q)

WroteMemory ==
    /\ StepOf({"Add", "Multiply", "LessThan", "Equals", "Input"})
    /\ Post.status = "running"

\* C10: replace(a, v) on a memory of length n gives length max(n, a+1), v at
\* a, the old value at every other address below n, 0 at every address from n
\* up to a, and get is 0 at and beyond the length; so it is for every memory a
\* computer comes to hold, at the addresses near either end and past the end, and for
\* the write every instruction makes, relative-mode targets included.
C10_ReplaceGrowsWithZeroFill ==
    /\ \A v \in VMs : NewMemory(v) =>
          \A a \in Probed(vm[v].memory), x \in ReplaceValues :
             \A r \in {replace(vm[v].memory, a, x)} :
                Replaced(vm[v].memory, a, x, r)
    /\ WroteMemory =>
          Replaced(Pre.memory, AddressAt(WriteParameter), Written, Post.memory)

\* A relative-mode write that lands beyond the end and leaves a gap.
C10_Witness ==
    /\ WroteMemory
    /\ ModeDigitAt(WriteParameter) = 2
    /\ Pre.relative_base # 0
    /\ AddressAt(WriteParameter) > Len(Pre.memory)
    /\ Len(Post.memory) = AddressAt(WriteParameter) + 1

\* Parameter i of the step at hand is read through an address at or beyond
\* the end of memory, and the step went through.
ReadBeyond(i) ==
    /\ last.kind = "step"
    /\ Post.status = "running"
    /\ Resolved(i)
    /\ TwoDigitOpcode # 3
    /\ ~(TwoDigitOpcode \in {1, 2, 7, 8} /\ i = 3)
    /\ ModeDigitAt(i) \in {0, 2}
    /\ AddressAt(i) >= Len(Pre.memory)

\* C11 as stated: after a read at or beyond the extent, the extent includes
\* the address read.
C11_ReadExtendsMemory ==
    \A i \in 1..2 : ReadBeyond(i) => Len(Post.memory) > AddressAt(i)

\* C11, amended: a read at or beyond the extent yields 0 and leaves the extent
\* alone; memory is as long after the step as before it, unless the step
\* also writes, and then as long as the write makes it.
C11_ReadLeavesExtent ==
    \A i \in 1..2 : ReadBeyond(i) =>
        /\ Len(Post.memory) =
              IF WroteMemory
              THEN Max(Len(Pre.memory), AddressAt(WriteParameter) + 1)
              ELSE Len(Pre.memory)
        /\ ~WroteMemory => Post.memory = Pre.memory
        /\ StepOf({"Output"}) => Post.sent = Append(Pre.sent, 0)
        /\ StepOf({"RelativeBaseOffset"}) => Post.relative_base = Pre.relative_base

\* An Output sent the 0 it read beyond the end of memory.
C11_Witness ==
    /\ StepOf({"Output"})
    /\ ReadBeyond(1)
    /\ AddressAt(1) > Len(Pre.memory)
    /\ Post.sent = Append(Pre.sent, 0)
    /\ Len(Post.memory) = Len(Pre.memory)

\* The encoded length of the instruction the word at the pointer stood for
\* when the step began.
EncodedLength ==
    CASE TwoDigitOpcode \in {1, 2, 7, 8} -> 4
      [] TwoDigitOpcode \in {3, 4, 9} -> 2
      [] TwoDigitOpcode \in {5, 6} -> 3
      [] OTHER -> 1

TestPassed ==
    /\ TwoDigitOpcode \in {5, 6}
    /\ IF TwoDigitOpcode = 5 THEN ValueAt(1) # 0 ELSE ValueAt(1) = 0

\* C12: every step that went through and is not a jump whose test passed
\* advances the instruction pointer by the encoded length of the instruction
\* decoded at its start (4, 2, or 3 for a jump not taken), also when the step
\* overwrote its own opcode word or operands.
C12_PointerAdvancesByLength ==
    (last.kind = "step" /\ Post.status = "running" /\ ~TestPassed)
    => Post.instruction_pointer = Pre.instruction_pointer + EncodedLength

\* An Input stored over its own opcode word a word of another length.
C12_Witness ==
    /\ StepOf({"Input"})
    /\ Post.status = "running"
    /\ AddressAt(1) = Pre.instruction_pointer
    /\ get(Post.memory, Pre.instruction_pointer) \in {1, 2, 7, 8}
    /\ Post.instruction_pointer = Pre.instruction_pointer + 2

Compared ==
    IF TwoDigitOpcode = 7 THEN (IF ValueAt(1) < ValueAt(2) THEN 1 ELSE 0)
    ELSE (IF ValueAt(1) = ValueAt(2) THEN 1 ELSE 0)

\* C13: a LessThan step writes 1 to its output address if a < b and 0
\* otherwise, an Equals step 1 if a = b and 0 otherwise, in every combination
\* of addressing modes; the cell written holds 0 or 1 and no other cell
\* changes.
C13_ComparisonsWriteZeroOrOne ==
    (StepOf({"LessThan", "Equals"}) /\ Post.status = "running")
    => /\ TwoDigitOpcode \in {7, 8}
       /\ Replaced(Pre.memory, AddressAt(3), Compared, Post.memory)
       /\ get(Post.memory, AddressAt(3)) \in {0, 1}

\* An Equals of an immediate and a cell found them equal and wrote 1 over a
\* cell that held neither 0 nor 1.
C13_Witness ==
    /\ StepOf({"Equals"})
    /\ Post.status = "running"
    /\ ModeDigitAt(1) = 1 /\ ModeDigitAt(2) = 0
    /\ ValueAt(1) = ValueAt(2)
    /\ get(Pre.memory, AddressAt(3)) \notin {0, 1}
    /\ get(Post.memory, AddressAt(3)) = 1

\* ------------------------------------------- Add and Multiply on i64 words
\* An i64 as its eight bytes, least significant first, in two's complement;
\* `one + two` and `one * two` of run() on such words. With overflow checks
\* (debug profile) an overflowing operation panics, without them (release
\* profile) it wraps.

\* The i64 of an integer small enough to calculate with here.
i64(x) ==
    [k \in 1..8 |-> IF k <= 4 THEN (x \div (256 ^ (k - 1))) % 256
                    ELSE IF x < 0 THEN 255 ELSE 0]

IsNegative(w) == w[Len(w)] >= 128

\* The same number in n bytes, n at least the length of w.
SignExtend(w, n) ==
    [k \in 1..n |-> IF k <= Len(w) THEN w[k]
                    ELSE IF IsNegative(w) THEN 255 ELSE 0]

\* a + b modulo 256^n.
AddBytes(a, b, n) ==
    LET carry[k \in 0..n] ==
            IF k = 0 THEN 0 ELSE (a[k] + b[k] + carry[k - 1]) \div 256
    IN  [k \in 1..n |-> (a[k] + b[k] + carry[k - 1]) % 256]

\* The sum of the byte products of weight 256^(k-1).
Column(a, b, k) ==
    LET s[j \in 0..k] == IF j = 0 THEN 0 ELSE s[j - 1] + a[j] * b[k - j + 1]
    IN  s[k]

\* a * b modulo 256^n.
MulBytes(a, b, n) ==
    LET t[k \in 0..n] ==
            IF k = 0 THEN 0 ELSE Column(a, b, k) + (t[k - 1] \div 256)
    IN  [k \in 1..n |-> t[k] % 256]

wrapping(op, one, two) ==
    IF op = "Add" THEN AddBytes(one, two, 8) ELSE MulBytes(one, two, 8)

\* The sum or product as a number: sixteen bytes hold it.
Exact(op, one, two) ==
    IF op = "Add"
    THEN AddBytes(SignExtend(one, 16), SignExtend(two, 16), 16)
    ELSE MulBytes(SignExtend(one, 16), SignExtend(two, 16), 16)

overflows(op, one, two) ==
    SignExtend(wrapping(op, one, two), 16) # Exact(op, one, two)

\* Operands: small ones, an instruction word, the two sides of the square
\* root of 2^63, 2^62, i64::MAX and i64::MIN.
Words == { i64(0), i64(1), i64(-1), i64(2), i64(-3), i64(21107),
           <<51, 243, 4, 181, 0, 0, 0, 0>>, <<52, 243, 4, 181, 0, 0, 0, 0>>,
           <<0, 0, 0, 0, 0, 0, 0, 64>>,
           <<255, 255, 255, 255, 255, 255, 255, 127>>,
           <<0, 0, 0, 0, 0, 0, 0, 128>> }

Profiles == {"debug", "release"}

\* The arithmetic of the Add and Multiply arms on the operands in calc.
Calculate(op) ==
    /\ calc.op = op
    /\ calc.outcome = None
    /\ \E profile \in Profiles :
          calc' = IF overflows(op, calc.one, calc.two) /\ profile = "debug"
                  THEN [calc EXCEPT !.outcome = "panicked"]
                  ELSE [calc EXCEPT !.outcome = "written",
                                    !.result = wrapping(op, calc.one, calc.two)]
    /\ UNCHANGED <<mode, vm, chan, values, sends, loads, last, day5>>

AddWords == Calculate("Add")

MultiplyWords == Calculate("Multiply")

ArithInit ==
    /\ mode = None
    /\ vm = [v \in VMs |-> From(<<>>, "absent")]
    /\ chan = NoChannels
    /\ values = <<>>
    /\ sends = 0
    /\ loads = 0
    /\ last = NoLast
    /\ NoPolymer
    /\ \E op \in {"Add", "Multiply"}, one \in Words, two \in Words :
          calc = [NoCalc EXCEPT !.op = op, !.one = one, !.two = two]

ArithNext == AddWords \/ MultiplyWords

ArithSpec == ArithInit /\ [][ArithNext]_vars

\* C14: an Add (Multiply) writes the sum (product) of its two operand values,
\* for every pair of 64-bit operand values: the calculation does not panic
\* and what it writes is, as a number, the sum (product) of the operands.
C14_WritesSumOrProduct ==
    calc.outcome # None =>
        /\ calc.outcome = "written"
        /\ SignExtend(calc.result, 16) = Exact(calc.op, calc.one, calc.two)

\* C14, for operand values whose sum (product) is far from the ends of i64:
\* the value written is the sum (product) of the operands as they were before
\* the write, also when the output address is that of an operand or of the
\* instruction's own cells, and no other cell changes; 1,0,0,0,99 ends as
\* 2,0,0,0,99 and 2,3,0,3,99 as 2,3,0,6,99.
C14_OperandsReadBeforeWrite ==
    /\ (StepOf({"Add", "Multiply"}) /\ Post.status = "running")
       => Replaced(Pre.memory, AddressAt(3), Written, Post.memory)
    /\ (last.kind = "step" /\ Pre.instruction_pointer = 0) =>
          /\ Pre.memory = <<1, 0, 0, 0, 99>> =>
                (Post.memory = <<2, 0, 0, 0, 99>> /\ get(Post.memory, Post.instruction_pointer) = 99)
          /\ Pre.memory = <<2, 3, 0, 3, 99>> =>
                (Post.memory = <<2, 3, 0, 6, 99>> /\ get(Post.memory, Post.instruction_pointer) = 99)

\* ------------------------------------------------ the program 3,0,4,0,99
\* The program that sends what it receives, run by the caller or in a thread
\* of its own, with one value for it: words that are instructions of every
\* length, the halt word, and words that are no instruction.
Echo == <<3, 0, 4, 0, 99>>

EchoValues == {-5, 0, 1, 3, 4, 5, 9, 42, 99, 1105, 21107}

EchoInit ==
    /\ (InitInline({Echo}) \/ InitThread({Echo}))
    /\ \E x \in EchoValues : values = <<x>>
    /\ sends = 0
    /\ loads = 0
    /\ last = NoLast
    /\ calc = NoCalc
    /\ NoPolymer

EchoNext ==
    \/ \E v \in VMs : Input(v)
    \/ \E v \in VMs : Output(v)
    \/ \E v \in VMs : Halt(v)
    \/ \E v \in VMs : create_input(v)
    \/ \E v \in VMs : create_output(v)
    \/ \E v \in VMs : run(v)
    \/ \E v \in VMs : CallerSend(v, values[1])
    \/ \E v \in VMs : CallerDropSender(v)
    \/ \E v \in VMs : CallerRecv(v)
    \/ \E v \in VMs : CallerDropReceiver(v)

EchoSpec == EchoInit /\ [][EchoNext]_vars

\* C15: program 3,0,4,0,99 with x the only value for its input sends nothing
\* but x and sends it once; its Input takes the value queued and goes on, its
\* Output with a receiver alive goes on to the halt word; it fails only for
\* want of a channel or of the other end of one; and when it has halted its
\* memory is x,0,4,0,99 and it has received x and sent x.
C15_EchoesItsInput ==
    /\ IsPrefix(vm["A"].sent, values)
    /\ vm["A"].status = "halted" =>
          /\ vm["A"].memory = <<values[1], 0, 4, 0, 99>>
          /\ vm["A"].received = values
          /\ vm["A"].sent = values
    /\ (InputActed("A") /\ Queued # <<>>) =>
          (Post.status = "running" /\ Post.memory = <<values[1], 0, 4, 0, 99>>)
    /\ (StepOf({"Output"}) /\ Pre.output # None /\ last.prechan[Pre.output].rx) =>
          /\ Post.status = "running"
          /\ chan[Pre.output].q = Append(last.prechan[Pre.output].q, values[1])
          /\ get(Post.memory, Post.instruction_pointer) = 99
    /\ vm["A"].status = "failed" =>
          vm["A"].err \in {"ChannelClosed", "NoInputChannel", "NoOutputChannel"}

\* Started in a thread, the program received the word of an Add, sent it to
\* the caller and halted.
C15_Witness ==
    /\ mode = "thread"
    /\ values = <<21107>>
    /\ vm["A"].status = "halted"
    /\ vm["A"].memory = <<21107, 0, 4, 0, 99>>
    /\ vm["A"].sent = <<21107>>
    /\ chan["outA"].q = <<21107>>

\* The step just taken ended run() with a normal return.
Returned == last.kind = "step" /\ Post.status = "halted"

\* C16: run() returns only by a step at a word whose opcode is 99, and that
\* step leaves memory, instruction pointer, relative base and channels as
\* they were; a step that ends execution in any other way ends it with a
\* fatal error; a computer becomes halted by nothing but such a step; and a
\* program whose first word is 99 halts in its first step with memory
\* unchanged.
C16_HaltOnlyByOpcode99 ==
    /\ [](Returned =>
            /\ TwoDigitOpcode = 99
            /\ Unchanged(Registers \cup {"channels"}))
    /\ []((last.kind = "step" /\ TwoDigitOpcode = 99) => Returned)
    /\ []((last.kind = "step" /\ ~Returned) =>
            \/ Post.status = "running" /\ Post.err = None
            \/ Post.status = "failed" /\ Post.err # None)
    /\ []((last.kind = "step" /\ Pre.steps = 0 /\ Pre.instruction_pointer = 0
           /\ get(Pre.memory, 0) = 99) =>
            (Returned /\ Post.steps = 1 /\ Post.memory = Pre.memory))
    /\ [][\A v \in VMs :
            (vm[v].status # "halted" /\ vm'[v].status = "halted") =>
                (last'.kind = "step" /\ last'.who = v /\ last'.op = "Halt"
                 /\ vm[v].status = "running")]_vars

\* A computer that had received a value and moved its pointer halted with
\* another value still queued for it.
C16_Witness ==
    /\ Returned
    /\ Pre.received # <<>>
    /\ Pre.instruction_pointer # 0
    /\ Pre.input # None
    /\ chan[Pre.input].q # <<>>

\* ------------------------------------------------------ inline operation
\* The caller drives one computer on its own thread: it creates the input
\* and the output channel, sends the input values, calls run(), and when
\* run() has returned receives the outputs.
InlinePrograms == IOPrograms \cup Producers \cup Consumers

Attached(v) == vm[v].input # None /\ vm[v].output # None

AttachInput(v) == vm[v].input = None /\ create_input(v)

AttachOutput(v) == vm[v].output = None /\ create_output(v)

SendBeforeRun(v) ==
    /\ Attached(v)
    /\ vm[v].status = "idle"
    /\ CallerSend(v, values[sends + 1])

RunOnce(v) == Attached(v) /\ vm[v].status = "idle" /\ run(v)

DrainAfterRun(v) == vm[v].status = "halted" /\ CallerRecv(v)

InlineInit ==
    /\ InitInline(InlinePrograms)
    /\ values = InputValues
    /\ sends = 0
    /\ loads = 0
    /\ last = NoLast
    /\ calc = NoCalc
    /\ NoPolymer

InlineNext ==
    \/ \E v \in VMs : AttachInput(v)
    \/ \E v \in VMs : AttachOutput(v)
    \/ \E v \in VMs : SendBeforeRun(v)
    \/ \E v \in VMs : RunOnce(v)
    \/ \E v \in VMs : DrainAfterRun(v)
    \/ \E v \in VMs : DecodePanic(v)
    \/ \E v \in VMs : Add(v)
    \/ \E v \in VMs : Multiply(v)
    \/ \E v \in VMs : Input(v)
    \/ \E v \in VMs : Output(v)
    \/ \E v \in VMs : JumpIfTrue(v)
    \/ \E v \in VMs : JumpIfFalse(v)
    \/ \E v \in VMs : LessThan(v)
    \/ \E v \in VMs : Equals(v)
    \/ \E v \in VMs : RelativeBaseOffset(v)
    \/ \E v \in VMs : Halt(v)

InlineSpec == InlineInit /\ [][InlineNext]_vars

\* C17: in inline operation the k-th Input executed receives the k-th value
\* the caller sent; while run() is on the stack every value an Output sent is
\* queued, in the order sent, and an Output goes through however many values
\* are queued undrained; after run() has returned the caller receives the
\* queued values from the head, so every value sent, in order, none lost.
C17_InlineInputsAndOutputsInOrder ==
    /\ [](IsPrefix(vm["A"].received, values))
    /\ [](InputActed("A") => (Queued # <<>> /\ TookHead))
    /\ [](vm["A"].status = "running" /\ vm["A"].output # None
            => chan[vm["A"].output].q = vm["A"].sent)
    /\ []((StepOf({"Output"}) /\ Readable(1)) =>
            /\ Post.status = "running"
            /\ chan[Pre.output].q = Append(last.prechan[Pre.output].q, ValueAt(1))
            /\ Post.sent = Append(Pre.sent, ValueAt(1)))
    /\ [][\A c \in Chans : chan'[c].q # chan[c].q =>
            \/ \E x \in {values[k] : k \in 1..Len(values)} :
                  /\ c = vm["A"].input
                  /\ vm["A"].status = "idle"
                  /\ chan'[c].q = Append(chan[c].q, x)
            \/ /\ c = vm["A"].input
               /\ vm'["A"].received = Append(vm["A"].received, Head(chan[c].q))
               /\ chan'[c].q = Tail(chan[c].q)
            \/ /\ c = vm["A"].output
               /\ chan'[c].q = Append(chan[c].q, vm'["A"].sent[Len(vm'["A"].sent)])
               /\ Len(vm'["A"].sent) = Len(vm["A"].sent) + 1
            \/ /\ c = vm["A"].output
               /\ vm["A"].status = "halted"
               /\ vm' = vm
               /\ chan'[c].q = Tail(chan[c].q)]_vars

\* run() has returned with three values sent and none drained, the third
\* sent while two were waiting.
C17_Witness ==
    /\ Returned
    /\ Len(Post.sent) = 3
    /\ chan[Post.output].q = Post.sent
    /\ Post.sent[1] # Post.sent[2]

\* ------------------------------------------------- y2018/day5.rs
\* react_polymer as a state machine: one action for each way through an
\* iteration of its while loop, one for the return, one for the panic.
\* Units are one-letter strings.

is_lowercase(u) == u \in {"a", "b", "c", "d"}

to_lowercase(u) ==
    CASE u = "A" -> "a" [] u = "B" -> "b" [] u = "C" -> "c" [] u = "D" -> "d"
      [] OTHER -> u

test_unit_reaction(a, b) ==
    IF is_lowercase(a) = is_lowercase(b) THEN FALSE
    ELSE IF is_lowercase(a) THEN a = to_lowercase(b)
    ELSE to_lowercase(a) = b

\* Vec::remove(position), positions counted from 0.
remove(vec, position) ==
    SubSeq(vec, 1, position) \o SubSeq(vec, position + 2, Len(vec))

\* The units at i and i + 1.
unit == polymer[index + 1]

next_unit == polymer[index + 2]

Dropped(u) == drop_unit # None /\ (u = drop_unit[1] \/ u = drop_unit[2])

\* while i < polymer.len() - 1, for a polymer that is not empty.
InLoop == pc = "loop" /\ Len(polymer) > 0 /\ index < Len(polymer) - 1

\* polymer.len() - 1 on an empty polymer is a usize subtraction below zero:
\* with overflow checks it panics; without them it wraps to usize::MAX, the
\* loop is entered and polymer[i] panics, out of bounds.
PanicOnEmpty ==
    /\ pc = "loop"
    /\ Len(polymer) = 0
    /\ pc' = "panicked"
    /\ UNCHANGED <<polymer, index, drop_unit, scanned>>
    /\ UNCHANGED <<mode, vm, chan, values, sends, loads, last, calc>>

ReturnPolymer ==
    /\ pc = "loop"
    /\ Len(polymer) > 0
    /\ ~(index < Len(polymer) - 1)
    /\ pc' = "returned"
    /\ UNCHANGED <<polymer, index, drop_unit, scanned>>
    /\ UNCHANGED <<mode, vm, chan, values, sends, loads, last, calc>>

\* Lines 110-117.
RemoveUnit ==
    /\ InLoop
    /\ Dropped(unit)
    /\ polymer' = remove(polymer, index)
    /\ index' = IF index # 0 THEN index - 1 ELSE index
    /\ UNCHANGED <<drop_unit, pc, scanned>>
    /\ UNCHANGED <<mode, vm, chan, values, sends, loads, last, calc>>

\* Lines 118-121.
RemoveNextUnit ==
    /\ InLoop
    /\ ~Dropped(unit)
    /\ Dropped(next_unit)
    /\ polymer' = remove(polymer, index + 1)
    /\ UNCHANGED <<index, drop_unit, pc, scanned>>
    /\ UNCHANGED <<mode, vm, chan, values, sends, loads, last, calc>>

\* Lines 124-132.
RemoveReaction ==
    /\ InLoop
    /\ ~Dropped(unit)
    /\ ~Dropped(next_unit)
    /\ test_unit_reaction(unit, next_unit)
    /\ polymer' = remove(remove(polymer, index), index)
    /\ index' = IF index # 0 THEN index - 1 ELSE index
    /\ UNCHANGED <<drop_unit, pc, scanned>>
    /\ UNCHANGED <<mode, vm, chan, values, sends, loads, last, calc>>

\* Line 134.
NextUnit ==
    /\ InLoop
    /\ ~Dropped(unit)
    /\ ~Dropped(next_unit)
    /\ ~test_unit_reaction(unit, next_unit)
    /\ index' = index + 1
    /\ UNCHANGED <<polymer, drop_unit, pc, scanned>>
    /\ UNCHANGED <<mode, vm, chan, values, sends, loads, last, calc>>

\* Every polymer of up to MaxPolymer units a, A, b, B, and the polymers of
\* the documentation.
RECURSIVE Polymers(_)
Polymers(n) ==
    IF n = 0 THEN { <<>> }
    ELSE Polymers(n - 1) \cup
         { Append(p, u) : p \in { q \in Polymers(n - 1) : Len(q) = n - 1 },
                          u \in {"a", "A", "b", "B"} }

Documented ==
    { <<"a", "b", "A", "B">>, <<"a", "a", "b", "A", "A", "B">>,
      <<"d", "a", "b", "A", "c", "C", "a", "C", "B", "A", "c", "C", "c", "a",
        "D", "A">> }

\* None, and the pairs of part2 for the letters in use.
drop_units == { None, <<"a", "A">>, <<"b", "B">>, <<"c", "C">>, <<"d", "D">> }

PolymerInit ==
    /\ mode = None
    /\ vm = [v \in VMs |-> From(<<>>, "absent")]
    /\ chan = NoChannels
    /\ values = <<>>
    /\ sends = 0
    /\ loads = 0
    /\ last = NoLast
    /\ calc = NoCalc
    /\ scanned \in Polymers(MaxPolymer) \cup Documented
    /\ polymer = scanned
    /\ index = 0
    /\ drop_unit \in drop_units
    /\ pc = "loop"

PolymerNext ==
    \/ PanicOnEmpty
    \/ ReturnPolymer
    \/ RemoveUnit
    \/ RemoveNextUnit
    \/ RemoveReaction
    \/ NextUnit

PolymerSpec == PolymerInit /\ [][PolymerNext]_vars

\* ------------------------------------------------- claims on day5.rs

\* Two units of the same letter and opposite case.
Opposite(a, b) == a # b /\ to_lowercase(a) = to_lowercase(b)

HasReaction(p) == \E k \in 1..(Len(p) - 1) : Opposite(p[k], p[k + 1])

\* The fully reacted polymer: units are pushed one by one, a unit that is
\* the opposite of the last one pushed takes it off again.
RECURSIVE Reacted(_, _)
Reacted(done, rest) ==
    IF rest = <<>> THEN done
    ELSE IF done # <<>> /\ Opposite(done[Len(done)], rest[1])
         THEN Reacted(SubSeq(done, 1, Len(done) - 1), Tail(rest))
         ELSE Reacted(Append(done, rest[1]), Tail(rest))

\* The polymer without the units of the pair.
RECURSIVE Without(_, _)
Without(p, pair) ==
    IF p = <<>> THEN <<>>
    ELSE IF p[1] = pair[1] \/ p[1] = pair[2] THEN Without(Tail(p), pair)
    ELSE <<p[1]>> \o Without(Tail(p), pair)

Finished == pc # "loop"

\* C18: react_polymer(polymer, None) completes for every polymer, and leaves
\* the fully reacted polymer, in which no two adjacent units are of the same
\* letter and opposite case; a polymer that reacts away completely leaves
\* length 0.
C18_ReactsEveryPolymer ==
    (Finished /\ drop_unit = None) =>
        /\ pc = "returned"
        /\ ~HasReaction(polymer)
        /\ polymer = Reacted(<<>>, scanned)

\* C19: react_polymer(polymer, (x, X)) leaves no unit x or X, and leaves the
\* polymer that removing every x and X and then fully reacting gives.
C19_DropsThenReacts ==
    (Finished /\ drop_unit # None) =>
        /\ pc = "returned"
        /\ \A k \in 1..Len(polymer) :
              polymer[k] # drop_unit[1] /\ polymer[k] # drop_unit[2]
        /\ polymer = Reacted(<<>>, Without(scanned, drop_unit))

\* ------------------------------------------------- claims on the decoder

\* The operation the table gives an opcode, and the parameter a mode digit
\* stands for.
Operation(opcode) ==
    CASE opcode = 1 -> "Add" [] opcode = 2 -> "Multiply" [] opcode = 3 -> "Input"
      [] opcode = 4 -> "Output" [] opcode = 5 -> "JumpIfTrue"
      [] opcode = 6 -> "JumpIfFalse" [] opcode = 7 -> "LessThan"
      [] opcode = 8 -> "Equals" [] opcode = 9 -> "RelativeBaseOffset"
      [] opcode = 99 -> "Halt" [] OTHER -> "Panic"

Parameters(operation) ==
    CASE operation \in {"Add", "Multiply", "LessThan", "Equals"} -> 3
      [] operation \in {"JumpIfTrue", "JumpIfFalse"} -> 2
      [] operation \in {"Input", "Output", "RelativeBaseOffset"} -> 1
      [] OTHER -> 0

ModeOf(digit) ==
    CASE digit = 0 -> "Position" [] digit = 1 -> "Value" [] digit = 2 -> "Relative"
      [] OTHER -> "Panic"

\* C20: for a non-negative word h at the pointer the decoded opcode is
\* h mod 100 and the mode of parameter slot i is (h div 10^(2+i)) mod 10, with
\* 0 Position, 1 Immediate, 2 Relative; the slots go to the operands in order;
\* decoding the state the step began in again gives the instruction the step
\* ran, and a step that only decoded changed no memory cell, pointer or
\* relative base.
C20_DecodesByDigits ==
    (last.kind = "step" /\ PreWord >= 0) =>
        LET ins == Decode(Pre)
        IN  /\ (ins.err = "InvalidOpcode") <=> (Operation(PreWord % 100) = "Panic")
            /\ ins.op # "Panic" =>
                  /\ ins.op = Operation(PreWord % 100)
                  /\ last.op = ins.op
                  /\ Len(ins.p) = Parameters(ins.op)
                  /\ \A k \in 1..Len(ins.p) :
                        /\ ins.p[k].tag = ModeOf((PreWord \div (10 ^ (1 + k))) % 10)
                        /\ ins.p[k].v = get(Pre.memory, Pre.instruction_pointer + k)
            /\ ins.op = "Panic" => Unchanged(Registers)
            /\ \A k \in 0..2 :
                  ParameterMode(PreWord, k) = "Invalid"
                      <=> (PreWord \div (10 ^ (2 + k))) % 10 \notin {0, 1, 2}

\* An Add away from address 0 whose three parameters are in three different
\* modes, in the order position, immediate, relative.
C20_Witness ==
    /\ StepOf({"Add"})
    /\ PreWord = 21001
    /\ Pre.instruction_pointer # 0
    /\ Pre.relative_base # 0
    /\ Post.status = "running"
    /\ Post.memory # Pre.memory

\* ------------------------------------------------- claims on a dropped sender

\* The last operation was an Input that failed on a closed channel.
ClosedOnInput ==
    StepOf({"Input"}) /\ Post.status = "failed" /\ Post.err = "ChannelClosed"

\* a occurs in b, in b's order.
RECURSIVE Within(_, _)
Within(a, b) ==
    IF a = <<>> THEN TRUE
    ELSE IF b = <<>> THEN FALSE
    ELSE IF a[1] = b[1] THEN Within(Tail(a), Tail(b))
    ELSE Within(a, Tail(b))

\* C21: an Input fails on a closed channel only when its queue is empty and
\* the sender has been dropped; an Input whose sender has been dropped while
\* values are queued takes the first of them, so the values sent before the
\* drop are delivered in the order sent; the failure is on the first Input
\* that finds the queue drained, and the computer executes nothing after it.
C21_ClosedOnlyWhenDrained ==
    /\ [](ClosedOnInput =>
            /\ Pre.input # None
            /\ Queued = <<>>
            /\ ~last.prechan[Pre.input].tx
            /\ Unchanged(Registers)
            /\ Post.received = Pre.received)
    /\ [](\A v \in VMs :
            (InputActed(v) /\ ~last.prechan[Pre.input].tx /\ Queued # <<>>) =>
                (TookHead /\ ~ClosedOnInput))
    /\ [](\A v \in VMs :
            (InputActed(v) /\ ~last.prechan[Pre.input].tx /\ Queued = <<>>) =>
                ClosedOnInput)
    /\ [](\A v \in VMs :
            vm[v].input = in_chan(v) =>
                Within(vm[v].received \o chan[in_chan(v)].q,
                       SubSeq(values, 1, sends)))
    /\ [][\A v \in VMs :
            (vm[v].status = "failed" /\ vm[v].err = "ChannelClosed") =>
                (vm'[v].status = "failed" => vm'[v] = vm[v])]_vars

\* The second Input of a program, executed after the sender was dropped with
\* the second value still queued: it takes that value.
C21_Witness ==
    /\ StepOf({"Input"})
    /\ Pre.input # None
    /\ ~last.prechan[Pre.input].tx
    /\ Pre.received = <<InputValues[1]>>
    /\ Queued = <<InputValues[2]>>
    /\ Post.received = <<InputValues[1], InputValues[2]>>
    /\ Post.status = "running"

====
